---- MODULE Spec2Model ----
(***************************************************************************)
(* gcodetohpgl.py: translation of pcb-gcode files (drill, etch, mill) into *)
(* LPKF HPGL, and replay of the HPGL text over a serial port.              *)
(*                                                                         *)
(* Move and Z operands of the gcode are kept as integers in tenths (1.0 is *)
(* 10), drill sizes in thousandths, dwell times in 0.1 ms.  The HPGL text  *)
(* is a sequence of tokens: command atoms and the separators ";" and "\n". *)
(***************************************************************************)
EXTENDS Integers, Sequences, FiniteSets, TLC

VARIABLES
    dry, save,              \* args.dry; args.save_hpgl names a file (-o)
    drills, routes, mills,  \* the files found by glob: sequences of [side, lines]
    layer, olayer,          \* first layer and other layer
    mode,                   \* global mode: "abs" or "rel"
    x, y,                   \* parse_move.x, parse_move.y
    drill_dwell,            \* global drill_dwell, in 0.1 ms
    hpgl_file,              \* text written to hpgl_file, as tokens
    origin,                 \* for each token of hpgl_file: the phase and file it came from
    number,                 \* count of parsed lines
    f,                      \* lines not yet read of the open gcode file
    pc,                     \* position of main()
    err,                    \* how the process ended: "" while it runs or after a normal end
    commands,               \* replay: the commands split off the text of hpgl_file
    idx,                    \* replay: index of the next command
    chan,                   \* what was written to the serial port, one entry per write
    resp,                   \* what the last ser.read returned
    waiting,                \* replay is blocked in input()
    acks                    \* number of prompts the operator has answered

vars == <<dry, save, drills, routes, mills, layer, olayer, mode, x, y, drill_dwell,
          hpgl_file, origin, number, f, pc, err, commands, idx, chan, resp, waiting, acks>>

-----------------------------------------------------------------------------
(* Machine configuration *)

calfactor_num == 13333      \* calfactor = 133.33 = 13333 / 100
calfactor_den == 100
xmax == 42000
ymax == 24000
xoff == 1                   \* 0.1, in tenths
yoff == 1
mill_feed == 12000
spindle_speed == 32
drill_dwell_default == 7000 \* 0.7 s, in 0.1 ms

Deci == 10                  \* move operands are in tenths
DwellPerMs == 10            \* dwell times are in 0.1 ms

-----------------------------------------------------------------------------
(* Bounds of the model *)

MaxLen == 3                 \* lines of a drill file of the translator jobs
MaxSeqLen == 1              \* lines of each file of the sequencer jobs

-----------------------------------------------------------------------------
(* rounding down instead of toward zero *)
int_floor(n, d) == n \div d

(* Python's int(): truncation toward zero of n / d, d > 0 *)
int(n, d) == IF n >= 0 THEN n \div d ELSE -((-n) \div d)

(* '%.0f' % (n / d): round to nearest, ties to even, d > 0, n >= 0 *)
fmt0f(n, d) ==
    LET q == n \div d
        r == n % d
    IN  IF 2 * r < d THEN q
        ELSE IF 2 * r > d THEN q + 1
        ELSE IF q % 2 = 0 THEN q ELSE q + 1

-----------------------------------------------------------------------------
(* HPGL text *)

Tok(t, a, b, s) == [t |-> t, a |-> a, b |-> b, s |-> s]
Semi == Tok(";", 0, 0, "")
NL   == Tok("\n", 0, 0, "")
Atom(t) == Tok(t, 0, 0, "")

MsgFlip == "Please flip board."
MsgWait == "wait for position response"
MsgToolRouting == "Insert tool #a: size routing"
MsgToolMilling == "Insert tool #a: size milling"
MsgToolSize    == "Insert tool #a: size b"

(* Python's "word in command" for the words replay looks for *)
Contains(command, word) ==
    \E i \in 1..Len(command) :
        \/ word = "tool" /\ command[i].s \in {MsgToolRouting, MsgToolMilling, MsgToolSize}
        \/ word = "flip" /\ command[i].s = MsgFlip

(* a gcode line *)
Line(op, a, b, s) == [op |-> op, a |-> a, b |-> b, s |-> s]

(* the translator's state and what one call returns *)
State(m, px, py, dw) == [mode |-> m, x |-> px, y |-> py, dwell |-> dw]
Result(e, hpgl, st) == [err |-> e, hpgl |-> hpgl, st |-> st]

-----------------------------------------------------------------------------
(* Parse functions *)

change_units(st, new) ==
    IF new = "in" THEN Result("Exception", <<>>, st)
    ELSE Result("", <<>>, st)

(* the position query on entering relative mode instead of on leaving it *)
change_mode_into_rel(st, new) ==
    IF st.mode = new THEN Result("", <<>>, st)
    ELSE Result("",
                IF new = "rel"
                THEN <<Atom("OS"), Semi, NL, Tok("CO", 0, 0, MsgWait), NL>>
                ELSE <<>>,
                [st EXCEPT !.mode = new])

change_mode(st, new) ==
    IF st.mode = new THEN Result("", <<>>, st)
    ELSE Result("",
                IF st.mode = "rel"
                THEN <<Atom("OS"), Semi, NL, Tok("CO", 0, 0, MsgWait), NL>>
                ELSE <<>>,
                [st EXCEPT !.mode = new])

(* a relative move that sends the delta alone *)
parse_move_delta(st, a, b) ==
    IF st.mode = "abs" THEN
        LET newx == int(calfactor_num * (xoff + a), calfactor_den * Deci)
            newy == int(calfactor_num * (yoff + b), calfactor_den * Deci)
        IN  IF newx > xmax \/ newy > ymax
            THEN Result("SystemExit12", <<>>, st)
            ELSE Result("", <<Tok("PA", newx, newy, ""), Semi>>,
                        [st EXCEPT !.x = st.x + newx, !.y = st.y + newy])
    ELSE
        LET newx == int(calfactor_num * a, calfactor_den * Deci)
            newy == int(calfactor_num * b, calfactor_den * Deci)
        IN  IF st.x + newx > xmax \/ st.y + newy > ymax
            THEN Result("SystemExit12", <<>>, st)
            ELSE Result("", <<Tok("PR", newx, newy, ""), Semi>>,
                        [st EXCEPT !.x = st.x + newx, !.y = st.y + newy])

parse_move(st, a, b) ==
    IF st.mode = "abs" THEN
        LET newx == int(calfactor_num * (xoff + a), calfactor_den * Deci)
            newy == int(calfactor_num * (yoff + b), calfactor_den * Deci)
        IN  IF newx > xmax \/ newy > ymax
            THEN Result("SystemExit12", <<>>, st)
            ELSE Result("", <<Tok("PA", newx, newy, ""), Semi>>,
                        [st EXCEPT !.x = st.x + newx, !.y = st.y + newy])
    ELSE
        LET newx == int(calfactor_num * a, calfactor_den * Deci)
            newy == int(calfactor_num * b, calfactor_den * Deci)
        IN  IF st.x + newx > xmax \/ st.y + newy > ymax
            THEN Result("SystemExit12", <<>>, st)
            ELSE Result("", <<Tok("PR", st.x + newx, st.y + newy, ""), Semi>>,
                        [st EXCEPT !.x = st.x + newx, !.y = st.y + newy])

(* p: seconds, in 0.1 ms *)
parse_dwell(p) == <<Tok("!TW", fmt0f(p, DwellPerMs), 0, ""), Semi>>

(* a Z move that waits after every PD, drill or not *)
parse_z_always_dwell(st, a, drill) ==
    IF a <= 0
    THEN Result("", <<Atom("PD"), Semi>> \o parse_dwell(st.dwell), st)
    ELSE Result("", <<Atom("PU"), Semi>>, st)

parse_z(st, a, drill) ==
    IF a <= 0
    THEN Result("", <<Atom("PD"), Semi>> \o (IF drill THEN parse_dwell(st.dwell) ELSE <<>>), st)
    ELSE Result("", <<Atom("PU"), Semi>>, st)

(* a tool change that leaves the dwell of the drill as it was *)
parse_tool_change_keep(st, tool, size, label) ==
    LET msg == CASE label = "routing" -> MsgToolRouting
                 [] label = "milling" -> MsgToolMilling
                 [] OTHER -> MsgToolSize
    IN  Result("",
               <<Tok("PA", 0, 0, ""), Semi, NL, Tok("CO", tool, size, msg), NL>>,
               st)

(* tool: the number after T; size: the label in thousandths when label = "num" *)
parse_tool_change(st, tool, size, label) ==
    LET msg == CASE label = "routing" -> MsgToolRouting
                 [] label = "milling" -> MsgToolMilling
                 [] OTHER -> MsgToolSize
    IN  Result("",
               <<Tok("PA", 0, 0, ""), Semi, NL, Tok("CO", tool, size, msg), NL>>,
               IF label \notin {"routing", "milling"}
               THEN [st EXCEPT !.dwell = 20 * size * DwellPerMs]
               ELSE st)

parse_spindle(start) ==
    IF start
    THEN <<Atom("!OC"), Semi, Tok("!RM", spindle_speed, 0, ""), Semi, Atom("!CC"), Semi>>
    ELSE <<Tok("!RM", 0, 0, ""), Semi>>

(* re.match gives None for a move line without its X and Y operands, and  *)
(* None has no group                                                      *)
NoMatch == "AttributeError: 'NoneType' object has no attribute 'group'"

parse_line(st, line, drill) ==
    CASE line.op = "G20" -> change_units(st, "in")
      [] line.op = "G21" -> change_units(st, "mm")
      [] line.op = "G90" -> change_mode(st, "abs")
      [] line.op = "G91" -> change_mode(st, "rel")
      [] line.op = "G00Z" -> parse_z(st, line.a, drill)
      [] line.op = "G00XY" ->
            IF line.s = "no match" THEN Result(NoMatch, <<>>, st)
            ELSE parse_move(st, line.a, line.b)
      [] line.op = "G04" -> Result("", parse_dwell(line.a), st)
      [] line.op = "M03" -> Result("", parse_spindle(TRUE), st)
      [] line.op = "M05" -> Result("", parse_spindle(FALSE), st)
      [] line.op = "M06" -> parse_tool_change(st, line.a, line.b, line.s)
      [] OTHER -> Result("", <<>>, st)

-----------------------------------------------------------------------------
(* Control functions: the replay of the HPGL text *)

(* Python's seq.split(sep): the pieces between the separators *)
RECURSIVE split(_, _)
split(text, sep) ==
    IF \A i \in 1..Len(text) : text[i] # sep THEN <<text>>
    ELSE LET k == CHOOSE i \in 1..Len(text) :
                      text[i] = sep /\ \A j \in 1..(i - 1) : text[j] # sep
         IN  <<SubSeq(text, 1, k - 1)>> \o split(SubSeq(text, k + 1, Len(text)), sep)

RECURSIVE Flatten(_)
Flatten(ss) == IF ss = <<>> THEN <<>> ELSE Head(ss) \o Flatten(Tail(ss))

(* the commands the two loops of the replay visit, in order *)
Commands(text) ==
    LET lines == split(text, NL)
    IN  Flatten([i \in 1..Len(lines) |-> split(lines[i], Semi)])

(* a CO command that is neither a tool change nor a flip goes to the port *)
Dispatch_send_co(command) ==
    IF command = <<>> THEN "skip"
    ELSE IF command[1].t = "CO"
         THEN IF Contains(command, "tool") THEN "prompt"
              ELSE IF Contains(command, "flip") THEN "prompt"
              ELSE "send"
         ELSE "send"

(* a tool change or a flip that does not wait for the operator *)
Dispatch_no_prompt(command) ==
    IF command = <<>> THEN "skip"
    ELSE IF command[1].t = "CO" THEN "skip"
         ELSE "send"

(* what the replay does with one command: "skip", "prompt" or "send" *)
Dispatch(command) ==
    IF command = <<>> THEN "skip"
    ELSE IF command[1].t = "CO"
         THEN IF Contains(command, "tool") THEN "prompt"
              ELSE IF Contains(command, "flip") THEN "prompt"
              ELSE "skip"
         ELSE "send"

(* send_cmd: the bytes written to the port *)
send_cmd(command) == command \o <<Semi>>

(* what ser.read(128) of a real port can return: nothing, text with an E, *)
(* bytes that are not ASCII                                               *)
NotAscii == "\\x80"
Responses == {"", "E", NotAscii}

(* send_cmd: the colour of the report of an answer *)
Report(c) == IF c = "E" THEN "red" ELSE "white"

-----------------------------------------------------------------------------
(* The gcode files of a job *)

File(side, lines) == [side |-> side, lines |-> lines]
NoFile == File("", <<>>)

SeqOf(S, n) == UNION {[1..k -> S] : k \in 0..n}

Sides == {"top", "bot"}

LG20    == Line("G20", 0, 0, "")
LG90    == Line("G90", 0, 0, "")
LG91    == Line("G91", 0, 0, "")
LZdown  == Line("G00Z", -10, 0, "")
LZup    == Line("G00Z", 10, 0, "")
LM03    == Line("M03", 0, 0, "")
LM06    == Line("M06", 1, 35, "num")
LM06b   == Line("M06", 2, 50, "num")
LBad    == Line("G00XY", 0, 0, "no match")
LComment == Line("COMMENT", 0, 0, "")
LMove(a, b) == Line("G00XY", a, b, "")

(* lines of the files of the sequencer jobs *)
SeqLines == {LZdown, LG20}

(* lines of the drill file of the translator jobs: moves and modes *)
MoveLines == {LMove(10, 20), LMove(-10, -5), LMove(2000, 1000), LMove(3200, 10)}
TLines == MoveLines \cup {LG90, LG91, LM06}

(* lines of the drill file of the translator jobs: Z moves, spindle, tools *)
ZLines == {LZdown, LZup, LM03, LM06, LM06b, LComment, LBad}

(* every combination of present and absent files, with short files *)
SeqJobs ==
    LET files(side) == {File(side, c) : c \in SeqOf(SeqLines, MaxSeqLen)}
        one == UNION {{<<fl>> : fl \in files(s)} : s \in Sides}
        two == {<<a, b>> : a \in files("top"), b \in files("bot")}
    IN  [drills : {<<>>} \cup one \cup {<<File("top", <<>>), File("bot", <<>>)>>},
         routes : {<<>>} \cup one \cup two,
         mills  : {<<>>} \cup one]

(* one drill file, any lines *)
TransJobs ==
    [drills : {<<File("top", c)>> :
                  c \in (SeqOf(TLines, MaxLen) \cup SeqOf(ZLines, MaxLen)) \ {<<>>}},
     routes : {<<>>},
     mills  : {<<>>}]

Jobs == SeqJobs \cup TransJobs

-----------------------------------------------------------------------------
(* main() *)

Tag(ph, side) == [ph |-> ph, side |-> side]
Tags(hpgl, ph, side) == [i \in 1..Len(hpgl) |-> Tag(ph, side)]

Preamble ==
    <<Atom("IN"), Semi, Atom("!CT1"), Semi, Tok("VS", mill_feed, 0, ""), Semi,
      Atom("!OC"), Semi, Atom("!SV140"), Semi, Atom("!SM32"), Semi,
      Atom("!WR0,8,8"), Semi, Atom("!CC"), Semi, Atom("!CM1"), Semi>>

FlipText ==
    parse_spindle(FALSE) \o <<Atom("PU"), Semi>> \o <<NL, Tok("CO", 0, 0, MsgFlip), NL>>

Postamble ==
    <<Atom("!OC"), Semi, Tok("!RM", 0, 0, ""), Semi, Atom("!CC"), Semi, Atom("PU"), Semi>>

Cur == State(mode, x, y, drill_dwell)

(* the routes (or mills) whose name contains the layer *)
OnLayer(files, l) == SelectSeq(files, LAMBDA fl : fl.side = l)

Init ==
    /\ dry \in BOOLEAN
    /\ save \in BOOLEAN
    /\ \E job \in Jobs :
          /\ drills = job.drills
          /\ routes = job.routes
          /\ mills = job.mills
    /\ layer = ""
    /\ olayer = ""
    /\ mode = "abs"
    /\ x = 0
    /\ y = 0
    /\ drill_dwell = drill_dwell_default
    /\ hpgl_file = <<>>
    /\ origin = <<>>
    /\ number = 0
    /\ f = NoFile
    /\ pc = "start"
    /\ err = ""
    /\ commands = <<>>
    /\ idx = 0
    /\ chan = <<>>
    /\ resp = ""
    /\ waiting = FALSE
    /\ acks = 0

(* an error that is reported and does not end the process *)
Exit_continue(e) ==
    /\ pc' = pc
    /\ err' = e

(* the exit status of the process: sys.exit's argument, 1 after an        *)
(* exception nobody catches                                              *)
ExitStatus(e) ==
    CASE e = "" -> 0
      [] e = "SystemExit10" -> 10
      [] e = "SystemExit12" -> 12
      [] OTHER -> 1

(* sys.exit or an exception nobody catches: the process ends *)
Exit(e) ==
    /\ pc' = "exit"
    /\ err' = e

(* hpgl_file.write *)
Write(hpgl, ph, side) ==
    /\ hpgl_file' = hpgl_file \o hpgl
    /\ origin' = origin \o Tags(hpgl, ph, side)

(* lines 247-291: the files, the first layer, the preamble, the drill file *)
Start ==
    /\ pc = "start"
    /\ IF Len(drills) > 1
       THEN /\ Exit("SystemExit10")
            /\ UNCHANGED <<layer, olayer, hpgl_file, origin, f>>
       ELSE /\ layer' = IF drills # <<>> THEN drills[1].side ELSE "top"
            /\ olayer' = IF layer' = "top" THEN "bot" ELSE "top"
            /\ Write(Preamble, "pre", "")
            /\ IF drills # <<>>
               THEN pc' = "drill" /\ f' = drills[1]
               ELSE pc' = "routes" /\ f' = NoFile
            /\ err' = err
    /\ UNCHANGED <<dry, save, drills, routes, mills, mode, x, y, drill_dwell, number,
                   commands, idx, chan, resp, waiting, acks>>

(* one turn of a "for line in f" loop *)
ReadLine(ph, drill) ==
    /\ pc = ph
    /\ f.lines # <<>>
    /\ LET line == Head(f.lines)
           r == parse_line(Cur, line, drill)
       IN  /\ f' = [f EXCEPT !.lines = Tail(f.lines)]
           /\ IF line.op = "COMMENT"
              THEN UNCHANGED <<mode, x, y, drill_dwell, hpgl_file, origin, number, pc, err>>
              ELSE IF r.err # ""
              THEN /\ Exit(r.err)
                   /\ UNCHANGED <<mode, x, y, drill_dwell, hpgl_file, origin, number>>
              ELSE /\ mode' = r.st.mode
                   /\ x' = r.st.x
                   /\ y' = r.st.y
                   /\ drill_dwell' = r.st.dwell
                   /\ number' = number + 1
                   /\ Write(r.hpgl, ph, f.side)
                   /\ UNCHANGED <<pc, err>>
    /\ UNCHANGED <<dry, save, drills, routes, mills, layer, olayer, commands, idx, chan, resp, waiting, acks>>

(* the end of the file: the loop and the with block are left *)
EndFile(ph, next) ==
    /\ pc = ph
    /\ f.lines = <<>>
    /\ pc' = next
    /\ f' = NoFile
    /\ UNCHANGED <<dry, save, drills, routes, mills, layer, olayer, mode, x, y, drill_dwell,
                   hpgl_file, origin, number, err, commands, idx, chan, resp, waiting, acks>>

DrillLine == ReadLine("drill", TRUE)
DrillEnd == EndFile("drill", "routes")

(* the route file of the first layer, its tool change asked for only     *)
(* after a drill file                                                    *)
OpenNear_after_drill ==
    /\ pc = "routes"
    /\ IF routes = <<>>
       THEN /\ pc' = "flip"
            /\ UNCHANGED <<f, hpgl_file, origin, drill_dwell, err>>
       ELSE IF OnLayer(routes, layer) = <<>>
       THEN /\ Exit("IndexError")
            /\ UNCHANGED <<f, hpgl_file, origin, drill_dwell>>
       ELSE LET r == parse_tool_change(Cur, 98, 0, "routing")
            IN  /\ f' = OnLayer(routes, layer)[1]
                /\ Write(IF drills # <<>> THEN r.hpgl ELSE <<>>, "near", f'.side)
                /\ drill_dwell' = r.st.dwell
                /\ pc' = "near"
                /\ err' = err
    /\ UNCHANGED <<dry, save, drills, routes, mills, layer, olayer, mode, x, y, number,
                   commands, idx, chan, resp, waiting, acks>>

(* lines 306-309: the route file of the first layer and its tool change *)
OpenNear ==
    /\ pc = "routes"
    /\ IF routes = <<>>
       THEN /\ pc' = "flip"
            /\ UNCHANGED <<f, hpgl_file, origin, drill_dwell, err>>
       ELSE IF OnLayer(routes, layer) = <<>>
       THEN /\ Exit("IndexError")
            /\ UNCHANGED <<f, hpgl_file, origin, drill_dwell>>
       ELSE LET r == parse_tool_change(Cur, 98, 0, "routing")
            IN  /\ f' = OnLayer(routes, layer)[1]
                /\ Write(r.hpgl, "near", f'.side)
                /\ drill_dwell' = r.st.dwell
                /\ pc' = "near"
                /\ err' = err
    /\ UNCHANGED <<dry, save, drills, routes, mills, layer, olayer, mode, x, y, number,
                   commands, idx, chan, resp, waiting, acks>>

NearLine == ReadLine("near", FALSE)
NearEnd == EndFile("near", "flip")

(* lines 322-325 *)
Flip ==
    /\ pc = "flip"
    /\ Write(FlipText, "flip", "")
    /\ pc' = "oroutes"
    /\ UNCHANGED <<dry, save, drills, routes, mills, layer, olayer, mode, x, y, drill_dwell,
                   number, f, err, commands, idx, chan, resp, waiting, acks>>

(* the far side read from the route file of the first layer *)
OpenFar_layer ==
    /\ pc = "oroutes"
    /\ IF Len(routes) > 1
       THEN IF OnLayer(routes, layer) = <<>>
            THEN Exit("IndexError") /\ f' = f
            ELSE /\ f' = OnLayer(routes, layer)[1]
                 /\ pc' = "far"
                 /\ err' = err
       ELSE /\ pc' = "mills"
            /\ UNCHANGED <<f, err>>
    /\ UNCHANGED <<dry, save, drills, routes, mills, layer, olayer, mode, x, y, drill_dwell,
                   hpgl_file, origin, number, commands, idx, chan, resp, waiting, acks>>

(* lines 328-329 *)
OpenFar ==
    /\ pc = "oroutes"
    /\ IF Len(routes) > 1
       THEN IF OnLayer(routes, olayer) = <<>>
            THEN Exit("IndexError") /\ f' = f
            ELSE /\ f' = OnLayer(routes, olayer)[1]
                 /\ pc' = "far"
                 /\ err' = err
       ELSE /\ pc' = "mills"
            /\ UNCHANGED <<f, err>>
    /\ UNCHANGED <<dry, save, drills, routes, mills, layer, olayer, mode, x, y, drill_dwell,
                   hpgl_file, origin, number, commands, idx, chan, resp, waiting, acks>>

FarLine == ReadLine("far", FALSE)
FarEnd == EndFile("far", "mills")

(* lines 344-347 *)
OpenMill ==
    /\ pc = "mills"
    /\ IF OnLayer(mills, olayer) # <<>>
       THEN LET r == parse_tool_change(Cur, 99, 0, "milling")
            IN  /\ f' = OnLayer(mills, olayer)[1]
                /\ Write(r.hpgl, "mill", f'.side)
                /\ drill_dwell' = r.st.dwell
                /\ pc' = "mill"
       ELSE /\ pc' = "post"
            /\ UNCHANGED <<f, hpgl_file, origin, drill_dwell>>
    /\ UNCHANGED <<dry, save, drills, routes, mills, layer, olayer, mode, x, y, number, err,
                   commands, idx, chan, resp, waiting, acks>>

MillLine == ReadLine("mill", FALSE)
MillEnd == EndFile("mill", "post")

(* lines 361-390: the postamble, the port, the text read back and split.  *)
(* With -o the file was opened for writing only and read() raises.        *)
Post ==
    /\ pc = "post"
    /\ Write(Postamble, "post", "")
    /\ IF save
       THEN /\ Exit("UnsupportedOperation")
            /\ UNCHANGED <<commands, idx>>
       ELSE /\ pc' = "replay"
            /\ commands' = Commands(hpgl_file')
            /\ idx' = 1
            /\ err' = err
    /\ UNCHANGED <<dry, save, drills, routes, mills, layer, olayer, mode, x, y, drill_dwell,
                   number, f, chan, resp, waiting, acks>>

(* lines 390-401: one command of the buffer.  send_cmd writes it, reads   *)
(* the answer and decodes it: the str of SerialDummy has no decode, and   *)
(* bytes that are not ASCII do not decode.                                *)
ReplayCommand ==
    /\ pc = "replay"
    /\ ~waiting
    /\ idx <= Len(commands)
    /\ LET command == commands[idx]
           what == Dispatch(command)
       IN  IF what = "send"
           THEN /\ chan' = Append(chan, send_cmd(command))
                /\ waiting' = waiting
                /\ IF dry
                   THEN /\ Exit("AttributeError")
                        /\ UNCHANGED <<idx, resp>>
                   ELSE \E c \in Responses :
                           IF c = NotAscii
                           THEN /\ Exit("UnicodeDecodeError")
                                /\ UNCHANGED <<idx, resp>>
                           ELSE /\ resp' = c
                                /\ idx' = idx + 1
                                /\ UNCHANGED <<pc, err>>
           ELSE /\ waiting' = (what = "prompt")
                /\ idx' = IF what = "prompt" THEN idx ELSE idx + 1
                /\ UNCHANGED <<chan, resp, pc, err>>
    /\ UNCHANGED <<dry, save, drills, routes, mills, layer, olayer, mode, x, y, drill_dwell,
                   hpgl_file, origin, number, f, commands, acks>>

(* lines 402-403: the last prompt *)
FinalPrompt ==
    /\ pc = "replay"
    /\ ~waiting
    /\ idx > Len(commands)
    /\ pc' = "final"
    /\ waiting' = TRUE
    /\ UNCHANGED <<dry, save, drills, routes, mills, layer, olayer, mode, x, y, drill_dwell,
                   hpgl_file, origin, number, f, err, commands, idx, chan, resp, acks>>

(* the operator presses enter: input() returns *)
Enter ==
    /\ waiting
    /\ waiting' = FALSE
    /\ acks' = acks + 1
    /\ IF pc = "final"
       THEN pc' = "done" /\ idx' = idx
       ELSE pc' = pc /\ idx' = idx + 1
    /\ UNCHANGED <<dry, save, drills, routes, mills, layer, olayer, mode, x, y, drill_dwell,
                   hpgl_file, origin, number, f, err, commands, chan, resp>>

Next ==
    \/ Start
    \/ DrillLine \/ DrillEnd
    \/ OpenNear \/ NearLine \/ NearEnd
    \/ Flip
    \/ OpenFar \/ FarLine \/ FarEnd
    \/ OpenMill \/ MillLine \/ MillEnd
    \/ Post
    \/ ReplayCommand \/ FinalPrompt \/ Enter

Spec == Init /\ [][Next]_vars

-----------------------------------------------------------------------------
(* Properties of the translation of moves and mode changes *)

LinePhases == {"drill", "near", "far", "mill"}

(* the step parses the gcode line of operation op and writes its HPGL *)
Accepted(op) ==
    /\ pc \in LinePhases
    /\ f.lines # <<>>
    /\ Head(f.lines).op = op
    /\ number' = number + 1

(* the HPGL the step wrote *)
Written == SubSeq(hpgl_file', Len(hpgl_file) + 1, Len(hpgl_file'))

(* e is n / d truncated toward zero; stated without int *)
TruncatedTowardZero(e, n, d) ==
    IF n >= 0 THEN e * d <= n /\ n < (e + 1) * d
    ELSE e * d >= n /\ n > (e - 1) * d

(* C1: after an accepted move in absolute mode, parse_move.x and          *)
(* parse_move.y are the coordinates of the PA command just written.       *)
C1_AbsolutePositionReplaced ==
    [][(Accepted("G00XY") /\ mode = "abs") =>
          /\ Written[1].t = "PA"
          /\ x' = Written[1].a
          /\ y' = Written[1].b]_vars

(* C2: an accepted move in relative mode writes PR with, on each axis,    *)
(* the position before the move plus the truncated delta, and the         *)
(* position after the move is that operand.                               *)
C2_RelativeRunningTotal ==
    [][(Accepted("G00XY") /\ mode = "rel") =>
          LET line == Head(f.lines)
              e == Written[1]
          IN  /\ Len(Written) = 2
              /\ e.t = "PR"
              /\ TruncatedTowardZero(e.a - x, calfactor_num * line.a, calfactor_den * Deci)
              /\ TruncatedTowardZero(e.b - y, calfactor_num * line.b, calfactor_den * Deci)
              /\ x' = e.a
              /\ y' = e.b]_vars

(* two relative moves of (1.0, 2.0) from (0, 0): the second wrote the     *)
(* running total PR266,532, not the delta 133,266                         *)
C2_Witness ==
    /\ mode = "rel"
    /\ Len(hpgl_file) >= 4
    /\ hpgl_file[Len(hpgl_file) - 3] = Tok("PR", 133, 266, "")
    /\ hpgl_file[Len(hpgl_file) - 1] = Tok("PR", 266, 532, "")
    /\ x = 266
    /\ y = 532

(* C3: an accepted move in absolute mode writes PA with, on each axis,    *)
(* calfactor * (offset + operand) truncated toward zero.                  *)
C3_AbsoluteTruncation ==
    [][(Accepted("G00XY") /\ mode = "abs") =>
          LET line == Head(f.lines)
              e == Written[1]
          IN  /\ Len(Written) = 2
              /\ e.t = "PA"
              /\ TruncatedTowardZero(e.a, calfactor_num * (xoff + line.a), calfactor_den * Deci)
              /\ TruncatedTowardZero(e.b, calfactor_num * (yoff + line.b), calfactor_den * Deci)
              /\ e.a <= xmax
              /\ e.b <= ymax]_vars

(* (1.0, 2.0) gave PA146,279 and (-1.0, -0.5) gave PA-119,-53 *)
C3_Witness ==
    /\ \E i \in 1..Len(hpgl_file) : hpgl_file[i] = Tok("PA", 146, 279, "")
    /\ \E i \in 1..Len(hpgl_file) : hpgl_file[i] = Tok("PA", -119, -53, "")

(* the requested mode of a G90 or G91 line *)
Requested(line) == IF line.op = "G90" THEN "abs" ELSE "rel"

SyncMarkers(hpgl) == Len(SelectSeq(hpgl, LAMBDA t : t.t = "OS"))

(* C5 as stated: the current mode again writes nothing and keeps the mode; *)
(* absolute to relative writes exactly one OS; relative to absolute        *)
(* writes nothing.                                                        *)
C5_SyncOnEnteringRelative ==
    [][(Accepted("G90") \/ Accepted("G91")) =>
          LET new == Requested(Head(f.lines))
          IN  /\ mode' = new
              /\ (new = mode => Written = <<>>)
              /\ (mode = "abs" /\ new = "rel" => SyncMarkers(Written) = 1)
              /\ (mode = "rel" /\ new = "abs" => Written = <<>>)]_vars

(* C5, amended: the current mode again writes nothing and keeps the mode; *)
(* relative to absolute writes exactly one OS, and after it the CO        *)
(* "wait for position response"; absolute to relative writes nothing.     *)
C5_SyncOnLeavingRelative ==
    [][(Accepted("G90") \/ Accepted("G91")) =>
          LET new == Requested(Head(f.lines))
          IN  /\ mode' = new
              /\ (new = mode => Written = <<>>)
              /\ (mode = "rel" /\ new = "abs" =>
                     /\ SyncMarkers(Written) = 1
                     /\ Written = <<Atom("OS"), Semi, NL, Tok("CO", 0, 0, MsgWait), NL>>)
              /\ (mode = "abs" /\ new = "rel" => Written = <<>>)]_vars

(* G91, G90, G90 were parsed: one OS was written, by the first G90 *)
C5_Witness ==
    /\ pc = "drill"
    /\ drills[1].lines = <<LG91, LG90, LG90>>
    /\ f.lines = <<>>
    /\ mode = "abs"
    /\ SyncMarkers(hpgl_file) = 1

-----------------------------------------------------------------------------
(* Properties of the sequencing and of the replay *)

Replaying == pc \in {"replay", "final", "done"}

(* the replay has ended, by its last prompt or by an exception *)
ReplayErrors == {"UnsupportedOperation", "AttributeError", "UnicodeDecodeError"}
ReplayOver == pc = "done" \/ err \in ReplayErrors

(* the translation went through: hpgl_file is complete *)
Translated == Replaying \/ err \in ReplayErrors

Rank(ph) ==
    CASE ph = "pre" -> 0
      [] ph = "drill" -> 1
      [] ph = "near" -> 2
      [] ph = "flip" -> 3
      [] ph = "far" -> 4
      [] ph = "mill" -> 5
      [] ph = "post" -> 6

(* the places of hpgl_file written in phase ph *)
Places(ph) == {i \in 1..Len(origin) : origin[i].ph = ph}

Has(text, t) == \E i \in 1..Len(text) : text[i] = t
HasMessage(text, m) == \E i \in 1..Len(text) : text[i].t = "CO" /\ text[i].s = m

ToolMessages == {MsgToolRouting, MsgToolMilling, MsgToolSize}

(* how many times pat occurs in text *)
Occurrences(text, pat) ==
    Cardinality({k \in 1..(Len(text) - Len(pat) + 1) :
                    SubSeq(text, k, k + Len(pat) - 1) = pat})

(* a move past the bed or a request for inches ended the run *)
Fatal == err \in {"SystemExit12", "Exception"}

(* C4: once a move past xmax or ymax, or a G20, has been met, the run is  *)
(* over: nothing changes any more, no line is read, nothing was or is     *)
(* written to the port.                                                   *)
C4_FatalAborts ==
    /\ [](Fatal => pc = "exit" /\ chan = <<>> /\ commands = <<>> /\ ~waiting)
    /\ [][Fatal => UNCHANGED vars]_vars

(* a move past the bed ended the run with lines left in the file and      *)
(* HPGL already in hpgl_file                                              *)
C4_Witness ==
    /\ err = "SystemExit12"
    /\ f.lines # <<>>
    /\ Len(hpgl_file) > Len(Preamble)
    /\ chan = <<>>

(* C6: hpgl_file is written phase after phase, preamble first; when the   *)
(* translation is over it starts with the one preamble and ends with the  *)
(* one postamble; with a top drill file and both route files the near     *)
(* route is the top file and the far route the bottom file.               *)
C6_BufferShape ==
    /\ Len(origin) = Len(hpgl_file)
    /\ \A i \in 1..(Len(origin) - 1) : Rank(origin[i].ph) <= Rank(origin[i + 1].ph)
    /\ Translated =>
         /\ Places("pre") = 1..Len(Preamble)
         /\ SubSeq(hpgl_file, 1, Len(Preamble)) = Preamble
         /\ Occurrences(hpgl_file, Preamble) = 1
         /\ Places("post") = (Len(hpgl_file) - Len(Postamble) + 1)..Len(hpgl_file)
         /\ SubSeq(hpgl_file, Len(hpgl_file) - Len(Postamble) + 1, Len(hpgl_file)) = Postamble
         /\ Occurrences(hpgl_file, Postamble) = 1
         /\ Places("flip") # {}
         /\ (/\ drills # <<>>
             /\ drills[1].side = "top"
             /\ OnLayer(routes, "top") # <<>>
             /\ OnLayer(routes, "bot") # <<>>) =>
                \A i \in 1..Len(origin) :
                    /\ origin[i].ph = "near" => origin[i].side = "top"
                    /\ origin[i].ph = "far" => origin[i].side = "bot"

(* a job whose five phases all wrote commands has been replayed *)
C6_Witness ==
    /\ pc = "done"
    /\ drills # <<>>
    /\ drills[1].side = "top"
    /\ \A ph \in {"drill", "near", "flip", "far", "mill"} : Places(ph) # {}
    /\ \E i \in Places("far") : hpgl_file[i].t = "PD"

(* C7 as stated: the flip prompt is in hpgl_file only if there is a route *)
(* file of the other layer or a mill file.                                *)
C7_FlipOnlyWithFarSide ==
    HasMessage(hpgl_file, MsgFlip) => (OnLayer(routes, olayer) # <<>> \/ mills # <<>>)

(* C8 as stated: whatever files are there, the sequencing goes through;   *)
(* a phase without a file writes nothing, and a phase with a file is      *)
(* processed.                                                             *)
C8_EveryCombinationSequenced ==
    /\ err # "IndexError"
    /\ Places("drill") # {} => drills # <<>>
    /\ Places("near") # {} => OnLayer(routes, layer) # <<>>
    /\ Places("far") # {} => OnLayer(routes, olayer) # <<>>
    /\ Places("mill") # {} => OnLayer(mills, olayer) # <<>>
    /\ Translated =>
         /\ (OnLayer(routes, olayer) # <<>> /\ OnLayer(routes, olayer)[1].lines = <<LZdown>>)
                => Places("far") # {}
         /\ (OnLayer(mills, olayer) # <<>>) => Places("mill") # {}

(* a command of the buffer that goes to the port *)
IsDevice(command) == command # <<>> /\ command[1].t # "CO"

(* a command of the buffer at which the operator is asked *)
IsPrompt(command) ==
    /\ command # <<>>
    /\ command[1].t = "CO"
    /\ command[1].s \in ToolMessages \cup {MsgFlip}

(* the atoms of the text that are no CO pseudo-command *)
DeviceAtoms(text) == SelectSeq(text, LAMBDA t : t.t \notin {";", "\n", "CO"})

(* C9 as stated: no CO pseudo-command is ever written to the port, and    *)
(* when the replay has ended every other command of hpgl_file has been    *)
(* written, in order, each followed by ";".                               *)
C9_MarkersNeverSent ==
    /\ \A i \in 1..Len(chan) : \A j \in 1..Len(chan[i]) : chan[i][j].t # "CO"
    /\ ReplayOver =>
         LET atoms == DeviceAtoms(hpgl_file)
         IN  chan = [i \in 1..Len(atoms) |-> <<atoms[i], Semi>>]

Sent(cs) ==
    LET d == SelectSeq(cs, IsDevice)
    IN  [i \in 1..Len(d) |-> d[i] \o <<Semi>>]

(* C10: during the replay the port has received exactly the commands      *)
(* before the current one, the operator has answered exactly the tool     *)
(* changes and flips before the current one, and the replay waits only at *)
(* a tool change or a flip (or at the last prompt).                       *)
C10_MarkerBlocks ==
    Replaying =>
        LET before == SubSeq(commands, 1, idx - 1)
        IN  /\ chan = Sent(before)
            /\ acks = Len(SelectSeq(before, IsPrompt)) + (IF pc = "done" THEN 1 ELSE 0)
            /\ (waiting /\ pc = "replay") => IsPrompt(commands[idx])

(* the replay waits at the flip, after an answered tool change, with      *)
(* commands written before and commands left after                        *)
C10_Witness ==
    /\ pc = "replay"
    /\ waiting
    /\ commands[idx][1].s = MsgFlip
    /\ acks >= 1
    /\ chan # <<>>
    /\ \E k \in (idx + 1)..Len(commands) : IsDevice(commands[k])

(* C11 as stated: whatever the port answers, the commands of the buffer   *)
(* are written once each and in order (what is written is always a prefix *)
(* of them), and on a real port read back from the temporary file the     *)
(* replay ends with all of them written.                                  *)
C11_AnswersNeverHalt ==
    /\ Translated /\ ~save =>
         /\ Len(chan) <= Len(Sent(commands))
         /\ chan = SubSeq(Sent(commands), 1, Len(chan))
    /\ (~dry /\ ~save /\ ReplayOver) => chan = Sent(commands)

(* C12 as stated: with --dry-run the replay goes through the buffer as it *)
(* does on a port that answers nothing, and no exception ends it.         *)
C12_SimulatorTransparent ==
    (dry /\ ~save /\ Translated) =>
        /\ Replaying
        /\ chan = Sent(SubSeq(commands, 1, idx - 1))

(* the ways a run is given up: a move outside the bed, inches, more than  *)
(* one drill file, a line its pattern does not match                      *)
FatalErrors == {"SystemExit12", "Exception", "SystemExit10", NoMatch}

(* C13 as stated: a run given up for one of the four reasons ends with an *)
(* exit status that is not zero and that none of the other three reasons  *)
(* ends with.                                                             *)
C13_DistinctExitStatuses ==
    err \in FatalErrors =>
        /\ pc = "exit"
        /\ ExitStatus(err) # 0
        /\ \A e \in FatalErrors \ {err} : ExitStatus(e) # ExitStatus(err)

(* the places of hpgl_file up to i where a tool with a numeric size is    *)
(* asked for                                                              *)
SizedTools(i) ==
    {j \in 1..i : hpgl_file[j].t = "CO" /\ hpgl_file[j].s = MsgToolSize}

LastOf(S) == CHOOSE j \in S : \A k \in S : k <= j

(* C14: after a tool change with the numeric size d (in thousandths) each *)
(* PD of the drill phase is followed by a wait of 20 * d milliseconds,    *)
(* d being the size of the last such tool change before it; the dwell in  *)
(* force is the one of the last numeric tool change, or the default when  *)
(* there was none, whatever 'routing' and 'milling' tool changes followed.*)
C14_DwellFromToolSize ==
    /\ \A i \in 1..Len(hpgl_file) :
          (hpgl_file[i].t = "PD" /\ origin[i].ph = "drill" /\ SizedTools(i) # {}) =>
              /\ i + 2 <= Len(hpgl_file)
              /\ hpgl_file[i + 2] = Tok("!TW", 20 * hpgl_file[LastOf(SizedTools(i))].b, 0, "")
    /\ drill_dwell =
          IF SizedTools(Len(hpgl_file)) = {}
          THEN drill_dwell_default
          ELSE 20 * hpgl_file[LastOf(SizedTools(Len(hpgl_file)))].b * DwellPerMs

(* a 0.050 tool, then a 0.035 tool, then a drilled hole with a wait of    *)
(* 700 ms                                                                 *)
C14_Witness ==
    \E i, j, k \in 1..Len(hpgl_file) :
        /\ i < j /\ j < k
        /\ hpgl_file[i].t = "CO" /\ hpgl_file[i].s = MsgToolSize /\ hpgl_file[i].b = 50
        /\ hpgl_file[j].t = "CO" /\ hpgl_file[j].s = MsgToolSize /\ hpgl_file[j].b = 35
        /\ hpgl_file[k].t = "PD" /\ origin[k].ph = "drill"
        /\ k + 2 <= Len(hpgl_file)
        /\ hpgl_file[k + 2] = Tok("!TW", 700, 0, "")

(* C15: a Z line with an operand <= 0 writes PD;, followed by the wait of *)
(* the drill exactly when the line is read in the drill phase; a Z line   *)
(* with an operand > 0 writes PU; and nothing else.                       *)
C15_DwellOnlyWhenDrilling ==
    [][Accepted("G00Z") /\ err' = "" =>
          LET a == Head(f.lines).a
          IN  IF a <= 0
              THEN IF pc = "drill"
                   THEN /\ Len(Written) = 4
                        /\ SubSeq(Written, 1, 2) = <<Atom("PD"), Semi>>
                        /\ Written[3].t = "!TW"
                        /\ Written[4] = Semi
                   ELSE Written = <<Atom("PD"), Semi>>
              ELSE Written = <<Atom("PU"), Semi>>]_vars

(* a PD of a route or mill file with no wait behind it, a PD of the drill *)
(* file with one, and a PU                                                *)
C15_Witness ==
    /\ \E i \in 1..Len(hpgl_file) :
          /\ hpgl_file[i].t = "PD" /\ origin[i].ph \in {"near", "far", "mill"}
          /\ i + 2 <= Len(hpgl_file) /\ hpgl_file[i + 2].t # "!TW"
    /\ \E i \in 1..Len(hpgl_file) :
          /\ hpgl_file[i].t = "PD" /\ origin[i].ph = "drill"
          /\ i + 2 <= Len(hpgl_file) /\ hpgl_file[i + 2].t = "!TW"

(* a Z line with a positive operand has been read in the drill phase      *)
C15_WitnessUp ==
    \E i \in 1..Len(hpgl_file) : hpgl_file[i].t = "PU" /\ origin[i].ph = "drill"

(* the tool change the sequencer writes before the first route file *)
RoutingMarker ==
    <<Tok("PA", 0, 0, ""), Semi, NL, Tok("CO", 98, 0, MsgToolRouting), NL>>

(* C16 as stated: the 'routing' tool change is in the buffer only when a  *)
(* drill file was processed before the first route file.                  *)
C16_RoutingMarkerOnlyAfterDrill ==
    Has(hpgl_file, Tok("CO", 98, 0, MsgToolRouting)) => drills # <<>>

(* C16, amended: the step that enters the first route file writes the     *)
(* 'routing' tool change and nothing else, drill file or not, and no      *)
(* other step writes it.                                                  *)
C16_RoutingMarkerWheneverNear ==
    [][/\ (pc = "routes" /\ pc' = "near") => Written = RoutingMarker
       /\ Has(Written, Tok("CO", 98, 0, MsgToolRouting)) => (pc = "routes" /\ pc' = "near")]_vars

(* the first route file is entered with no drill file before it, and the  *)
(* buffer holds the 'routing' tool change right after the preamble        *)
C16_Witness ==
    /\ drills = <<>>
    /\ pc = "near"
    /\ hpgl_file = Preamble \o RoutingMarker

(* C17 as stated, in the form a finite run can refute: a replay that has  *)
(* begun on the buffer ends only behind its last prompt, with every       *)
(* command processed, one answered prompt for each tool change and flip   *)
(* of the buffer and one more for the last prompt.                        *)
C17_ReplayEndsAfterLastWait ==
    /\ (~save /\ ReplayOver) =>
          /\ pc = "done"
          /\ idx = Len(commands) + 1
          /\ acks = Len(SelectSeq(commands, IsPrompt)) + 1
    /\ pc = "final" => (waiting /\ idx = Len(commands) + 1)

(* C18 as stated: the operands of every PA and PR of the buffer lie on    *)
(* the bed, 0 <= x <= xmax and 0 <= y <= ymax.                            *)
C18_CoordinatesOnTheBed ==
    \A i \in 1..Len(hpgl_file) :
        hpgl_file[i].t \in {"PA", "PR"} =>
            /\ 0 <= hpgl_file[i].a /\ hpgl_file[i].a <= xmax
            /\ 0 <= hpgl_file[i].b /\ hpgl_file[i].b <= ymax

(* the spindle commands written to the port so far *)
SpindleWrites == SelectSeq(chan, LAMBDA c : c[1].t = "!RM")

(* C19 as stated: whenever the replay waits for the operator at a tool    *)
(* change or at the flip, the last spindle command written to the port    *)
(* stopped the spindle, or none was written.                              *)
C19_SpindleOffWhileWaiting ==
    (pc = "replay" /\ waiting) =>
        \/ SpindleWrites = <<>>
        \/ SpindleWrites[Len(SpindleWrites)][1].a = 0

(* the places of hpgl_file that hold a position command *)
PositionCommands == {i \in 1..Len(hpgl_file) : hpgl_file[i].t \in {"PA", "PR"}}

(* C20 as stated: the position parse_move keeps is the operand of the     *)
(* last position command of the buffer, (0,0) before the first one; so    *)
(* it is (0,0) after the PA0,0 of a tool change.                          *)
C20_PositionIsLastOperand ==
    IF PositionCommands = {}
    THEN x = 0 /\ y = 0
    ELSE /\ x = hpgl_file[LastOf(PositionCommands)].a
         /\ y = hpgl_file[LastOf(PositionCommands)].b

====
